---- MODULE Spec2Model ----
(***************************************************************************)
(* Model of src/main.py: the upload / submit-answers / results endpoints   *)
(* of the slide-to-exam backend, with the two process-wide dictionaries    *)
(* question_bank and student_answers.                                      *)
(*                                                                         *)
(* Strings are sequences of one-character strings, so that str.strip(),    *)
(* str.lower(), str.split(".") and " ".join() are computed and not         *)
(* assumed.  JSON values are tagged records [t, v].                        *)
(***************************************************************************)
EXTENDS Integers, Sequences, FiniteSets, TLC

VARIABLES
  question_bank,    \* dict filename -> [text, questions]       (main.py:35)
  student_answers,  \* dict filename -> parsed answers          (main.py:36)
  pending,          \* uploads suspended at `await file.read()` (main.py:161)
  req,              \* the request handled last
  resp,             \* the HTTP response it got
  calls             \* the calls it made to the external collaborators

vars == <<question_bank, student_answers, pending, req, resp, calls>>

\* Number of uploads that may be suspended at the await at the same time.
MaxPending == 2

(***************************************************************************)
(* Strings                                                                 *)
(***************************************************************************)

\* str.lower() on one character (the letters the inputs below use).
LowerChar(c) ==
  CASE c = "A" -> "a" [] c = "B" -> "b" [] c = "C" -> "c" [] c = "D" -> "d"
    [] c = "F" -> "f" [] c = "P" -> "p" [] c = "T" -> "t" [] c = "X" -> "x"
    [] OTHER -> c

lower(s) == [i \in 1..Len(s) |-> LowerChar(s[i])]

IsSpace(c) == c \in {" ", "\t", "\n"}

RECURSIVE lstrip(_)
lstrip(s) == IF s # <<>> /\ IsSpace(Head(s)) THEN lstrip(Tail(s)) ELSE s

RECURSIVE rstrip(_)
rstrip(s) ==
  IF s # <<>> /\ IsSpace(s[Len(s)]) THEN rstrip(SubSeq(s, 1, Len(s) - 1)) ELSE s

strip(s) == rstrip(lstrip(s))

\* s.split(".")[-1]: what follows the last dot, the whole string without one.
RECURSIVE split_last(_)
split_last(s) ==
  IF \E i \in 1..Len(s) : s[i] = "."
    THEN split_last(SubSeq(s, (CHOOSE i \in 1..Len(s) : s[i] = ".") + 1, Len(s)))
    ELSE s

\* " ".join(parts)
RECURSIVE join(_)
join(parts) ==
  IF parts = <<>> THEN <<>>
  ELSE IF Len(parts) = 1 THEN parts[1]
  ELSE parts[1] \o <<" ">> \o join(Tail(parts))

\* text[:n]
Take(s, n) == SubSeq(s, 1, IF Len(s) < n THEN Len(s) ELSE n)

(***************************************************************************)
(* JSON values                                                             *)
(***************************************************************************)
JNull == [t |-> "null", v |-> 0]
JNum(n) == [t |-> "num", v |-> n]
JStr(s) == [t |-> "str", v |-> s]
JArr(a) == [t |-> "arr", v |-> a]
JObj(f) == [t |-> "obj", v |-> f]

\* Raised by json.loads on text that is no JSON.
JSONDecodeError == [t |-> "JSONDecodeError", v |-> 0]

EmptyDict == JObj(<<>>)

\* dict.get(key, default) on a JSON object whose keys are strings.
dict_get(d, key, default) == IF key \in DOMAIN d.v THEN d.v[key] ELSE default

\* A Python dict literal of one, two or four string-keyed entries.
Dict1(k1, v1) == JObj([k \in {k1} |-> v1])
Dict2(k1, v1, k2, v2) == JObj([k \in {k1, k2} |-> IF k = k1 THEN v1 ELSE v2])
Dict3(k1, v1, k2, v2, k3, v3) ==
  JObj([k \in {k1, k2, k3} |-> IF k = k1 THEN v1 ELSE IF k = k2 THEN v2 ELSE v3])
Dict4(k1, v1, k2, v2, k3, v3, k4, v4) ==
  JObj([k \in {k1, k2, k3, k4} |->
         IF k = k1 THEN v1 ELSE IF k = k2 THEN v2 ELSE IF k = k3 THEN v3 ELSE v4])

\* The keys of the generation format (main.py:97-107).
K_multiple_choice == <<"m","u","l","t","i","p","l","e","_","c","h","o","i","c","e">>
K_fill_in == <<"f","i","l","l","_","i","n">>
K_short_answer == <<"s","h","o","r","t","_","a","n","s","w","e","r">>
K_question == <<"q","u","e","s","t","i","o","n">>
K_options == <<"o","p","t","i","o","n","s">>
K_answer == <<"a","n","s","w","e","r">>

(***************************************************************************)
(* Inputs: the requests and the replies of the language-model service      *)
(***************************************************************************)
P_q1 == <<"q","1">>
P_q2 == <<"q","2">>
P_q3 == <<"q","3">>
P_q4 == <<"q","4">>
P_q5 == <<"q","5">>
P_q6 == <<"q","6">>
P_q7 == <<"q","7">>

\* One generated question record, in the format of main.py:99 and main.py:102.
Choice(prompt, options, answer) ==
  Dict3(K_question, JStr(prompt), K_options, JArr(options), K_answer, JStr(answer))
Open(prompt, answer) == Dict2(K_question, JStr(prompt), K_answer, JStr(answer))

ABCD == <<JStr(<<"A">>), JStr(<<"B">>), JStr(<<"C">>), JStr(<<"D">>)>>

\* Four questions: one multiple-choice, two fill-in, one short-answer.
Exam4 ==
  Dict3(K_multiple_choice, JArr(<<Choice(P_q1, ABCD, <<"A">>)>>),
        K_fill_in, JArr(<<Open(P_q2, <<"b">>), Open(P_q3, <<" ","C"," ">>)>>),
        K_short_answer, JArr(<<Open(P_q4, <<"a"," ","b">>)>>))

\* Seven questions; the last one has an empty canonical answer.
Exam7 ==
  Dict3(K_multiple_choice,
          JArr(<<Choice(P_q1, ABCD, <<"A">>), Choice(P_q2, ABCD, <<"B">>),
                 Choice(P_q3, ABCD, <<"C">>)>>),
        K_fill_in, JArr(<<Open(P_q4, <<"d">>), Open(P_q5, <<"a","b">>)>>),
        K_short_answer, JArr(<<Open(P_q6, <<"a"," ","b">>), Open(P_q7, <<>>)>>))

\* A multiple-choice question with three options only.
ExamThreeOptions ==
  Dict1(K_multiple_choice,
        JArr(<<Choice(P_q1, <<JStr(<<"A">>), JStr(<<"B">>), JStr(<<"C">>)>>, <<"A">>)>>))

\* A fill-in question without its "answer" field.
ExamNoAnswer == Dict1(K_fill_in, JArr(<<Dict1(K_question, JStr(P_q1))>>))

\* The texts of the model replies and of the answers bodies.
ReplyExam4 ==
  "{\"multiple_choice\": [{\"question\": \"q1\", \"options\": [\"A\", \"B\", \"C\", \"D\"], \"answer\": \"A\"}], \"fill_in\": [{\"question\": \"q2\", \"answer\": \"b\"}, {\"question\": \"q3\", \"answer\": \" C \"}], \"short_answer\": [{\"question\": \"q4\", \"answer\": \"a b\"}]}"
ReplyExam7 ==
  "{\"multiple_choice\": [{\"question\": \"q1\", \"options\": [\"A\", \"B\", \"C\", \"D\"], \"answer\": \"A\"}, {\"question\": \"q2\", \"options\": [\"A\", \"B\", \"C\", \"D\"], \"answer\": \"B\"}, {\"question\": \"q3\", \"options\": [\"A\", \"B\", \"C\", \"D\"], \"answer\": \"C\"}], \"fill_in\": [{\"question\": \"q4\", \"answer\": \"d\"}, {\"question\": \"q5\", \"answer\": \"ab\"}], \"short_answer\": [{\"question\": \"q6\", \"answer\": \"a b\"}, {\"question\": \"q7\", \"answer\": \"\"}]}"
ReplyThreeOptions ==
  "{\"multiple_choice\": [{\"question\": \"q1\", \"options\": [\"A\", \"B\", \"C\"], \"answer\": \"A\"}]}"
ReplyNoAnswer ==
  "{\"fill_in\": [{\"question\": \"q1\"}]}"
BodyQ1Number == "{\"q1\": 5}"
BodyQ1 == "{\"q1\": \"a\"}"
BodyQ1toQ4 ==
  "{\"q1\": \" a \", \"q2\": \"B\", \"q3\": \"c\", \"q4\": \"ab\"}"

\* json.loads on the texts above (main.py:122, main.py:203); any other text
\* is not JSON.
json_loads(text) ==
  CASE text = "{}" -> EmptyDict
    [] text = "[]" -> JArr(<<>>)
    [] text = BodyQ1Number -> Dict1(P_q1, JNum(5))
    [] text = BodyQ1 -> Dict1(P_q1, JStr(<<"a">>))
    [] text = BodyQ1toQ4 ->
         Dict4(P_q1, JStr(<<" ","a"," ">>), P_q2, JStr(<<"B">>),
               P_q3, JStr(<<"c">>), P_q4, JStr(<<"a","b">>))
    [] text = ReplyExam4 -> Exam4
    [] text = ReplyExam7 -> Exam7
    [] text = ReplyThreeOptions -> ExamThreeOptions
    [] text = ReplyNoAnswer -> ExamNoAnswer
    [] OTHER -> JSONDecodeError

\* What openai.ChatCompletion.create does: raise, or return a completion
\* with this content.
Raises(kind) == [kind |-> kind, content |-> ""]
Completion(content) == [kind |-> "completion", content |-> content]

\* The answers bodies and the outcomes of the model call of the specification
\* Spec: two documents, concurrent uploads.
AnswerBodies == {"{not json", BodyQ1, BodyQ1toQ4}

LLMOutcomes ==
  { Raises("AuthenticationError"), Raises("Exception"),
    Completion("Sure! Here are your questions:"),
    Completion(ReplyExam4), Completion(ReplyThreeOptions) }

\* Those of the specification SpecGrading: one document, every kind of stored
\* exam and of stored submission.
GradingBodies == {"{not json", "[]", "{}", BodyQ1Number, BodyQ1, BodyQ1toQ4}

GradingOutcomes ==
  { Raises("AuthenticationError"),
    Completion("[]"), Completion("{}"), Completion(ReplyExam4),
    Completion(ReplyExam7), Completion(ReplyThreeOptions),
    Completion(ReplyNoAnswer) }

F_a_pdf == <<"a",".","p","d","f">>
F_b_PPT == <<"b",".","P","P","T">>
F_c_txt == <<"c",".","t","x","t">>

\* Uploaded files.  The bytes are described by the format they are really
\* encoded in and by the text pieces (pages, shapes, paragraphs) they hold.
Files ==
  { [filename |-> F_a_pdf, bytes |-> [format |-> "pdf", parts |-> << <<"h","i">>, <<"x">> >>]],
    [filename |-> F_a_pdf, bytes |-> [format |-> "pdf", parts |-> <<>>]],
    [filename |-> F_b_PPT, bytes |-> [format |-> "ppt", parts |-> << <<"s">> >>]],
    [filename |-> F_b_PPT, bytes |-> [format |-> "pptx", parts |-> << <<"s">> >>]],
    [filename |-> F_c_txt, bytes |-> [format |-> "junk", parts |-> <<>>]] }

\* Document identifiers used by /submit-answers/ and /results/.
Filenames == {F_a_pdf, F_b_PPT}

GradingFiles == {f \in Files : f.filename = F_a_pdf}
GradingFilenames == {F_a_pdf}

(***************************************************************************)
(* Helper functions of main.py                                             *)
(***************************************************************************)
EXT_pdf == <<"p","d","f">>
EXT_docx == <<"d","o","c","x">>
EXT_pptx == <<"p","p","t","x">>
EXT_ppt == <<"p","p","t">>

SUPPORTED_EXTENSIONS == {EXT_pdf, EXT_docx, EXT_pptx, EXT_ppt}

\* The three document decoders are libraries: each parses the bytes that are
\* encoded in its own format and raises on any other bytes.
fitz_open(file_bytes) == file_bytes.format = "pdf"
Presentation(file_bytes) == file_bytes.format = "pptx"
Document(file_bytes) == file_bytes.format = "docx"

\* extract_text: the decoder is chosen by the extension alone; every
\* exception becomes HTTPException(400).  `decoder` and `conversions` record
\* what was called on the bytes; the function calls no converter.
extract_text(file_bytes, extension) ==
  LET decoder ==
        CASE extension = EXT_pdf -> "fitz.open"
          [] extension \in {EXT_pptx, EXT_ppt} -> "Presentation"
          [] extension = EXT_docx -> "Document"
          [] OTHER -> "none"
      parsed ==
        CASE decoder = "fitz.open" -> fitz_open(file_bytes)
          [] decoder = "Presentation" -> Presentation(file_bytes)
          [] decoder = "Document" -> Document(file_bytes)
          [] OTHER -> FALSE
  IN  IF parsed
        THEN [status_code |-> 200, detail |-> "", text |-> join(file_bytes.parts),
              decoder |-> decoder, conversions |-> <<>>]
        ELSE [status_code |-> 400, detail |-> "Failed to process file",
              text |-> <<>>, decoder |-> decoder, conversions |-> <<>>]

\* The prompt carries the first 3000 characters of the text.
PromptTextLimit == 3000

\* generate_exam_questions: one request to the service; its reply goes
\* through json.loads and nothing else.  The HTTPException(500) raised on a
\* JSONDecodeError is caught again by `except Exception` and raised as 500.
generate_exam_questions(text, outcome) ==
  LET request == <<Take(text, PromptTextLimit)>>
      questions == json_loads(outcome.content)
  IN  CASE outcome.kind = "AuthenticationError" ->
             [status_code |-> 401, detail |-> "Invalid OpenAI API key",
              questions |-> JNull, requests |-> request]
        [] outcome.kind = "Exception" ->
             [status_code |-> 500, detail |-> "Question generation failed",
              questions |-> JNull, requests |-> request]
        [] OTHER ->
             IF questions = JSONDecodeError
               THEN [status_code |-> 500, detail |-> "Question generation failed",
                     questions |-> JNull, requests |-> request]
               ELSE [status_code |-> 200, detail |-> "", questions |-> questions,
                     requests |-> request]

\* d[key] = value on a Python dict, modelled as a function.
dict_set(d, key, value) ==
  [k \in DOMAIN d \cup {key} |-> IF k = key THEN value ELSE d[k]]

\* A torn write: the questions are replaced, the text of an entry that is
\* already there is kept.
store_questions_torn(bank, filename, text, questions) ==
  dict_set(bank, filename,
           [text |-> IF filename \in DOMAIN bank THEN bank[filename].text ELSE text,
            questions |-> questions])

\* question_bank[file.filename] = {"text": text, "questions": questions}
store_questions(bank, filename, text, questions) ==
  dict_set(bank, filename, [text |-> text, questions |-> questions])

\* A merging write: student_answers[filename].update(answers_dict).
store_answers_merge(store, filename, answers_dict) ==
  IF filename \in DOMAIN store /\ store[filename].t = "obj" /\ answers_dict.t = "obj"
    THEN dict_set(store, filename,
                  JObj([k \in DOMAIN store[filename].v \cup DOMAIN answers_dict.v |->
                          IF k \in DOMAIN answers_dict.v THEN answers_dict.v[k]
                                                         ELSE store[filename].v[k]]))
    ELSE dict_set(store, filename, answers_dict)

\* student_answers[filename] = answers_dict
store_answers(store, filename, answers_dict) == dict_set(store, filename, answers_dict)

(***************************************************************************)
(* Grading (get_results)                                                   *)
(***************************************************************************)
\* Normalisation that forgets the strip().
normalize_no_strip(s) == lower(s)

\* .strip().lower()
normalize(s) == lower(strip(s))

Q_TYPES == <<K_multiple_choice, K_fill_in, K_short_answer>>

\* One pass of the inner loop body.  acc.raised stands for an exception
\* (AttributeError, KeyError, TypeError) raised by an earlier or this pass.
grade_question(acc, answers, question) ==
  IF acc.raised THEN acc
  ELSE IF \/ answers.t # "obj"                        \* answers.get
          \/ question.t # "obj"                       \* question["question"]
          \/ K_question \notin DOMAIN question.v
          \/ question.v[K_question].t \in {"arr", "obj"}  \* unhashable key
    THEN [acc EXCEPT !.raised = TRUE]
  ELSE
    LET key == question.v[K_question]
        submitted == IF key.t = "str" THEN dict_get(answers, key.v, JStr(<<>>))
                                      ELSE JStr(<<>>)
    IN  IF \/ submitted.t # "str"                     \* .strip()
           \/ K_answer \notin DOMAIN question.v       \* question["answer"]
           \/ question.v[K_answer].t # "str"          \* .strip()
          THEN [acc EXCEPT !.raised = TRUE]
          ELSE
            LET user_answer == normalize(submitted.v)
                correct_answer == normalize(question.v[K_answer].v)
            IN  IF user_answer = correct_answer
                  THEN [acc EXCEPT !.total = @ + 1, !.correct = @ + 1]
                  ELSE [acc EXCEPT !.total = @ + 1,
                                   !.feedback = Append(@,
                                     [question |-> key.v,
                                      your_answer |-> user_answer,
                                      correct_answer |-> correct_answer])]

RECURSIVE grade_list(_, _, _)
grade_list(acc, answers, list) ==
  IF list = <<>> THEN acc
  ELSE grade_list(grade_question(acc, answers, Head(list)), answers, Tail(list))

\* `for question in questions.get("questions", {}).get(q_type, [])`.
\* Iterating a number or null raises; a non-empty string or object yields
\* strings, on which question["question"] raises; an empty one yields nothing.
grade_type(acc, quiz, answers, q_type) ==
  IF acc.raised THEN acc
  ELSE IF quiz.t # "obj" THEN [acc EXCEPT !.raised = TRUE]
  ELSE LET list == dict_get(quiz, q_type, JArr(<<>>))
       IN  CASE list.t = "arr" -> grade_list(acc, answers, list.v)
             [] list.t \in {"str", "obj"} /\ list.v = <<>> -> acc
             [] OTHER -> [acc EXCEPT !.raised = TRUE]

RECURSIVE grade_types(_, _, _, _)
grade_types(acc, quiz, answers, q_types) ==
  IF q_types = <<>> THEN acc
  ELSE grade_types(grade_type(acc, quiz, answers, Head(q_types)),
                   quiz, answers, Tail(q_types))

\* f"{score:.1f}" of (correct / total) * 100 if total > 0 else 0, as a number
\* of tenths: 750 stands for "75.0%".  Formatting rounds to the nearest
\* tenth, a tie to the even one.
format_score(correct, total) ==
  IF total > 0
    THEN LET q == (1000 * correct) \div total
             r == (1000 * correct) % total
         IN  IF 2 * r > total THEN q + 1
             ELSE IF 2 * r < total THEN q
             ELSE IF q % 2 = 0 THEN q ELSE q + 1
    ELSE 0

\* The tier is chosen on the unrounded score.
suggest(correct, total) ==
  IF total = 0 \/ 100 * correct < 50 * total
    THEN <<"Focus on fundamental concepts", "Review chapter summaries",
           "Practice basic definitions">>
  ELSE IF 100 * correct < 75 * total
    THEN <<"Work on application problems", "Practice time management",
           "Review diagrams and charts">>
  ELSE <<"Excellent performance!", "Challenge yourself with advanced problems",
         "Help peers with difficult concepts">>

MaxFeedback == 5

\* The list without its cap.
all_mistakes(feedback) == feedback

\* feedback[:5]
top_mistakes(feedback) == Take(feedback, MaxFeedback)

\* question_bank[filename] without the default: a missing entry raises,
\* here by handing the loop a value that is no dict.
stored_questions_subscript(bank, filename) ==
  IF filename \in DOMAIN bank THEN bank[filename].questions ELSE JNull

\* question_bank.get(filename, {}).get("questions", {})
stored_questions(bank, filename) ==
  IF filename \in DOMAIN bank THEN bank[filename].questions ELSE EmptyDict

\* student_answers.get(filename, {})
stored_answers(store, filename) ==
  IF filename \in DOMAIN store THEN store[filename] ELSE EmptyDict

(***************************************************************************)
(* Requests, responses                                                     *)
(***************************************************************************)
NoBytes == [format |-> "none", parts |-> <<>>]

Request(op, filename, bytes, answers) ==
  [op |-> op, filename |-> filename, bytes |-> bytes, answers |-> answers]

\* A response without a body of its own: an error, or an acknowledgment.
Response(status_code, detail) ==
  [status_code |-> status_code, detail |-> detail, questions |-> JNull,
   score |-> 0, correct |-> 0, total |-> 0, feedback |-> <<>>,
   suggestions |-> <<>>]

NoCalls == [decoder |-> "none", decoded |-> "none", conversions |-> <<>>,
            generation |-> <<>>]

\* The body of get_results, from the two dictionaries to the response.
results_response(bank, store, filename) ==
  LET graded == grade_types([raised |-> FALSE, correct |-> 0, total |-> 0,
                             feedback |-> <<>>],
                            stored_questions(bank, filename),
                            stored_answers(store, filename), Q_TYPES)
  IN  IF graded.raised
        THEN Response(500, "Failed to generate results")
        ELSE [Response(200, "") EXCEPT
                !.score = format_score(graded.correct, graded.total),
                !.correct = graded.correct,
                !.total = graded.total,
                !.feedback = top_mistakes(graded.feedback),
                !.suggestions = suggest(graded.correct, graded.total)]

(***************************************************************************)
(* The endpoints                                                           *)
(***************************************************************************)
Init ==
  /\ question_bank = <<>>
  /\ student_answers = <<>>
  /\ pending = {}
  /\ req = Request("none", <<>>, NoBytes, "")
  /\ resp = Response(0, "")
  /\ calls = NoCalls

\* upload_file up to `await file.read()`: an unsupported extension is
\* answered at once, any other upload is suspended at the await.
upload_file_begin(file) ==
  LET extension == lower(split_last(file.filename))
  IN  IF extension \notin SUPPORTED_EXTENSIONS
        THEN /\ req' = Request("upload", file.filename, file.bytes, "")
             /\ resp' = Response(400, "Unsupported file type")
             /\ calls' = NoCalls
             /\ UNCHANGED <<question_bank, student_answers, pending>>
        ELSE /\ Cardinality(pending) < MaxPending
             /\ file \notin pending
             /\ pending' = pending \cup {file}
             /\ UNCHANGED <<question_bank, student_answers, req, resp, calls>>

\* upload_file from the await on: extraction, generation, store, response.
\* An HTTPException raised on the way is re-raised as it is.
upload_file_resume(file, outcome) ==
  LET extension == lower(split_last(file.filename))
      extracted == extract_text(file.bytes, extension)
      generated == generate_exam_questions(extracted.text, outcome)
      called == [decoder |-> extracted.decoder, decoded |-> file.bytes.format,
                 conversions |-> extracted.conversions, generation |-> <<>>]
  IN  /\ file \in pending
      /\ pending' = pending \ {file}
      /\ req' = Request("upload", file.filename, file.bytes, "")
      /\ UNCHANGED student_answers
      /\ IF extracted.status_code # 200
           THEN /\ resp' = Response(extracted.status_code, extracted.detail)
                /\ calls' = called
                /\ UNCHANGED question_bank
         ELSE IF generated.status_code # 200
           THEN /\ resp' = Response(generated.status_code, generated.detail)
                /\ calls' = [called EXCEPT !.generation = generated.requests]
                /\ UNCHANGED question_bank
         ELSE /\ question_bank' = store_questions(question_bank, file.filename,
                                                  extracted.text, generated.questions)
              /\ resp' = [Response(200, "File processed successfully") EXCEPT
                            !.questions = generated.questions]
              /\ calls' = [called EXCEPT !.generation = generated.requests]

\* submit_answers.  The HTTPException(400) raised on a JSONDecodeError is
\* raised inside the outer try, whose `except Exception` catches it and
\* raises HTTPException(500).
submit_answers(filename, answers) ==
  LET answers_dict == json_loads(answers)
  IN  /\ req' = Request("submit_answers", filename, NoBytes, answers)
      /\ calls' = NoCalls
      /\ UNCHANGED <<question_bank, pending>>
      /\ IF answers_dict = JSONDecodeError
           THEN /\ resp' = Response(500, "Failed to process answers")
                /\ UNCHANGED student_answers
           ELSE /\ student_answers' = store_answers(student_answers, filename, answers_dict)
                /\ resp' = Response(200, "Answers submitted successfully")

\* get_results: no await, the two reads and the grading are one step.
get_results(filename) ==
  /\ req' = Request("get_results", filename, NoBytes, "")
  /\ resp' = results_response(question_bank, student_answers, filename)
  /\ calls' = NoCalls
  /\ UNCHANGED <<question_bank, student_answers, pending>>

Next ==
  \/ \E file \in Files : upload_file_begin(file)
  \/ \E file \in Files, outcome \in LLMOutcomes : upload_file_resume(file, outcome)
  \/ \E filename \in Filenames, answers \in AnswerBodies : submit_answers(filename, answers)
  \/ \E filename \in Filenames : get_results(filename)

Spec == Init /\ [][Next]_vars

\* The same endpoints on one document, with the inputs of the grading claims.
NextGrading ==
  \/ \E file \in GradingFiles : upload_file_begin(file)
  \/ \E file \in GradingFiles, outcome \in GradingOutcomes :
       upload_file_resume(file, outcome)
  \/ \E filename \in GradingFilenames, answers \in GradingBodies :
       submit_answers(filename, answers)
  \/ \E filename \in GradingFilenames : get_results(filename)

SpecGrading == Init /\ [][NextGrading]_vars

(***************************************************************************)
(* What the claims speak of, stated without the grading code               *)
(***************************************************************************)
Extension(filename) == lower(split_last(filename))

\* The text a request's bytes decode to, when its decoder accepts them.
Decodes(r) == extract_text(r.bytes, Extension(r.filename)).status_code = 200
DecodedText(r) == extract_text(r.bytes, Extension(r.filename)).text

\* A reply that is an object of question lists.
IsExamObject(quiz) ==
  /\ quiz.t = "obj"
  /\ \A k \in DOMAIN quiz.v : k \in {K_multiple_choice, K_fill_in, K_short_answer}
                              /\ quiz.v[k].t = "arr"

ListOf(quiz, q_type) == IF q_type \in DOMAIN quiz.v THEN quiz.v[q_type].v ELSE <<>>

\* The questions in question order: multiple-choice, fill-in, short-answer.
QuestionsOf(quiz) ==
  ListOf(quiz, K_multiple_choice) \o ListOf(quiz, K_fill_in) \o ListOf(quiz, K_short_answer)

HasRequiredFields(q) ==
  /\ q.t = "obj"
  /\ K_question \in DOMAIN q.v /\ q.v[K_question].t = "str"
  /\ K_answer \in DOMAIN q.v /\ q.v[K_answer].t = "str"

HasFourOptions(q) ==
  /\ q.t = "obj"
  /\ K_options \in DOMAIN q.v /\ q.v[K_options].t = "arr"
  /\ Len(q.v[K_options].v) = 4

\* An ExamSet of the data model.
WellFormedExam(quiz) ==
  /\ IsExamObject(quiz)
  /\ \A i \in 1..Len(QuestionsOf(quiz)) : HasRequiredFields(QuestionsOf(quiz)[i])
  /\ \A i \in 1..Len(ListOf(quiz, K_multiple_choice)) :
       HasFourOptions(ListOf(quiz, K_multiple_choice)[i])

\* An AnswerSubmission of the data model: a mapping to answer strings.
IsAnswerSubmission(a) == a.t = "obj" /\ \A k \in DOMAIN a.v : a.v[k].t = "str"

\* The exam and the submission a results request for `filename` reads.
ExamOf(filename) ==
  IF filename \in DOMAIN question_bank THEN question_bank[filename].questions
                                       ELSE EmptyDict
SubmissionOf(filename) ==
  IF filename \in DOMAIN student_answers THEN student_answers[filename] ELSE EmptyDict

\* Trimming and case-folding, stated by positions.
Trimmed(s) ==
  LET inked == {i \in 1..Len(s) : ~IsSpace(s[i])}
  IN  IF inked = {} THEN <<>>
      ELSE SubSeq(s, CHOOSE i \in inked : \A j \in inked : i <= j,
                     CHOOSE i \in inked : \A j \in inked : j <= i)
Folded(s) == [i \in 1..Len(s) |-> LowerChar(s[i])]

AnswerTo(a, q) ==
  IF q.v[K_question].v \in DOMAIN a.v THEN a.v[q.v[K_question].v].v ELSE <<>>

IsCorrect(a, q) == Folded(Trimmed(AnswerTo(a, q))) = Folded(Trimmed(q.v[K_answer].v))

NumCorrect(quiz, a) ==
  Cardinality({i \in 1..Len(QuestionsOf(quiz)) : IsCorrect(a, QuestionsOf(quiz)[i])})

Mismatch(a, q) ==
  [question |-> q.v[K_question].v,
   your_answer |-> Folded(Trimmed(AnswerTo(a, q))),
   correct_answer |-> Folded(Trimmed(q.v[K_answer].v))]

\* The mismatches of the whole exam, in question order.
RECURSIVE MismatchesOf(_, _)
MismatchesOf(a, questions) ==
  IF questions = <<>> THEN <<>>
  ELSE (IF IsCorrect(a, Head(questions)) THEN <<>>
        ELSE <<Mismatch(a, Head(questions))>>) \o MismatchesOf(a, Tail(questions))

Min(a, b) == IF a < b THEN a ELSE b

IsResults == req.op = "get_results"
IsUpload == req.op = "upload"
IsSubmit == req.op = "submit_answers"

(***************************************************************************)
(* Claims on grading, checked under SpecGrading                            *)
(***************************************************************************)

\* C8: for every ExamSet and AnswerSubmission, grading succeeds with total =
\* the number of questions of the three variants, correct = the number of
\* questions whose submitted answer equals the canonical answer once both are
\* trimmed and case-folded, and score = the tenth nearest to
\* correct / total * 100, or 0 for an exam without questions.
C8_GradingCounts ==
  LET quiz == ExamOf(req.filename)
      a == SubmissionOf(req.filename)
  IN  (IsResults /\ WellFormedExam(quiz) /\ IsAnswerSubmission(a)) =>
        /\ resp.status_code = 200
        /\ resp.total = Len(QuestionsOf(quiz))
        /\ resp.correct = NumCorrect(quiz, a)
        /\ IF resp.total = 0 THEN resp.score = 0
           ELSE /\ 2 * (resp.score * resp.total - 1000 * resp.correct) <= resp.total
                /\ 2 * (1000 * resp.correct - resp.score * resp.total) <= resp.total

\* Three of four right, one of them up to case and blanks only: "75.0%".
C8_Witness ==
  /\ IsResults /\ resp.status_code = 200
  /\ ExamOf(req.filename) = Exam4
  /\ SubmissionOf(req.filename) = json_loads(BodyQ1toQ4)
  /\ resp.total = 4 /\ resp.correct = 3 /\ resp.score = 750

\* C9: the mismatch list is the first min(5, number of incorrect questions)
\* mismatches in question order; correct and total count every question,
\* listed or not.
C9_MismatchList ==
  LET quiz == ExamOf(req.filename)
      a == SubmissionOf(req.filename)
      all == MismatchesOf(a, QuestionsOf(quiz))
  IN  (IsResults /\ WellFormedExam(quiz) /\ IsAnswerSubmission(a)) =>
        /\ Len(resp.feedback) = Min(5, Len(all))
        /\ resp.feedback = SubSeq(all, 1, Min(5, Len(all)))
        /\ resp.total - resp.correct = Len(all)

\* Six questions are wrong, five are listed.
C9_Witness ==
  /\ IsResults /\ resp.status_code = 200
  /\ WellFormedExam(ExamOf(req.filename))
  /\ IsAnswerSubmission(SubmissionOf(req.filename))
  /\ resp.total - resp.correct = 6
  /\ Len(resp.feedback) = 5

\* An exam object whose three lists are absent or empty.
ZeroQuestions(quiz) == IsExamObject(quiz) /\ QuestionsOf(quiz) = <<>>

C7_AsStated ==
  (IsResults /\ req.filename \in DOMAIN question_bank
     /\ WellFormedExam(ExamOf(req.filename))
     /\ req.filename \in DOMAIN student_answers) =>
    resp.status_code = 200

(***************************************************************************)
(* Claims on the endpoints and the two stores, checked under Spec          *)
(***************************************************************************)

\* C1: a submit-answers request whose answers body is no JSON is answered
\* with status 400 and leaves the AnswerStore as it was.
C1_AsStated ==
  [][\A filename \in Filenames, answers \in AnswerBodies :
       (submit_answers(filename, answers) /\ json_loads(answers) = JSONDecodeError) =>
         (resp'.status_code = 400 /\ student_answers' = student_answers)]_vars

\* C2: a submission replaces the one before it.  After an accepted
\* submit-answers the AnswerStore holds for that identifier the mapping of
\* this submission and no key of an earlier one, and a results request
\* treats every question whose prompt is no key of the stored mapping as
\* unanswered: it is a mismatch with the empty answer, unless the canonical
\* answer is itself empty once trimmed.
C2_ReplaceNotMerge ==
  /\ (IsSubmit /\ resp.status_code = 200) =>
       /\ req.filename \in DOMAIN student_answers
       /\ student_answers[req.filename] = json_loads(req.answers)
  /\ LET quiz == ExamOf(req.filename)
         a == SubmissionOf(req.filename)
         listed == {resp.feedback[i] : i \in 1..Len(resp.feedback)}
     IN  (IsResults /\ WellFormedExam(quiz) /\ IsAnswerSubmission(a)
            /\ resp.total - resp.correct <= 5) =>
           \A i \in 1..Len(QuestionsOf(quiz)) :
             LET q == QuestionsOf(quiz)[i]
             IN  (q.v[K_question].v \notin DOMAIN a.v
                    /\ Trimmed(q.v[K_answer].v) # <<>>) =>
                   [question |-> q.v[K_question].v, your_answer |-> <<>>,
                    correct_answer |-> Folded(Trimmed(q.v[K_answer].v))] \in listed

\* Results after a submission of q1 alone: q2, q3 and q4 are unanswered.
C2_Witness ==
  /\ IsResults /\ resp.status_code = 200
  /\ ExamOf(req.filename) = Exam4
  /\ req.filename \in DOMAIN student_answers
  /\ student_answers[req.filename] = json_loads(BodyQ1)
  /\ resp.correct = 1 /\ Len(resp.feedback) = 3

\* C4: every question held in ExamStore has its question text and its
\* canonical answer and, if multiple-choice, exactly 4 options, and so has
\* every exam an upload answers with.
C4_AsStated ==
  /\ \A filename \in DOMAIN question_bank :
       WellFormedExam(question_bank[filename].questions)
  /\ (IsUpload /\ resp.status_code = 200) => WellFormedExam(resp.questions)

\* C5: an upload whose document decodes to the empty text fails with the
\* extraction error, sends no generation request and stores no exam.
C5_AsStated ==
  [][\A file \in Files, outcome \in LLMOutcomes :
       (upload_file_resume(file, outcome) /\ Decodes(file) /\ DecodedText(file) = <<>>) =>
         /\ resp'.status_code = 400
         /\ calls'.generation = <<>>
         /\ question_bank' = question_bank]_vars

\* C6: on an upload declared .ppt the slide-deck decoder runs only after a
\* conversion, and never on bytes in the legacy encoding.
C6_AsStated ==
  (IsUpload /\ Extension(req.filename) = EXT_ppt /\ calls.decoder = "Presentation") =>
    /\ calls.conversions # <<>>
    /\ calls.decoded # "ppt"

\* C10: store access is atomic per document identifier, the last writer
\* wins, and no request touches another identifier.  A step changes an
\* ExamStore entry only as the upload of that identifier answered with its
\* exam, which writes the whole entry from its own text and questions; it
\* changes an AnswerStore entry only as the accepted submission for that
\* identifier, which writes its own mapping; no entry is ever removed; and
\* a results request changes neither store.
C10_AtomicPerKey ==
  [][/\ DOMAIN question_bank \subseteq DOMAIN question_bank'
     /\ DOMAIN student_answers \subseteq DOMAIN student_answers'
     /\ \A f \in DOMAIN question_bank' :
          (f \notin DOMAIN question_bank \/ question_bank'[f] # question_bank[f]) =>
            /\ req'.op = "upload" /\ req'.filename = f /\ resp'.status_code = 200
            /\ question_bank'[f] = [text |-> DecodedText(req'), questions |-> resp'.questions]
     /\ \A f \in DOMAIN student_answers' :
          (f \notin DOMAIN student_answers \/ student_answers'[f] # student_answers[f]) =>
            /\ req'.op = "submit_answers" /\ req'.filename = f /\ resp'.status_code = 200
            /\ student_answers'[f] = json_loads(req'.answers)
     /\ \A file \in Files, outcome \in LLMOutcomes :
          (upload_file_resume(file, outcome) /\ resp'.status_code = 200) =>
            question_bank'[file.filename] =
              [text |-> DecodedText(file), questions |-> json_loads(outcome.content)]
     /\ \A filename \in Filenames :
          get_results(filename) =>
            resp' = results_response(question_bank', student_answers', filename)
    ]_vars

\* An upload has overwritten the exam of an identifier with a different one
\* while another upload of the same identifier is still suspended, and a
\* submission for the other identifier is stored.
C10_Witness ==
  /\ IsUpload /\ resp.status_code = 200
  /\ \E file \in pending : file.filename = req.filename /\ file.bytes # req.bytes
  /\ DOMAIN student_answers = Filenames \ {req.filename}
  /\ DOMAIN question_bank = Filenames

====
